---------------------------- MODULE Spec2Model ----------------------------
(***************************************************************************)
(* A model of rigel (src/rigel.go): a signature database is loaded, one    *)
(* producer goroutine walks a directory tree and pushes file paths into a  *)
(* buffered channel, MAXPROCS worker goroutines take paths and run         *)
(* checkFile on each, main waits for the workers.                          *)
(*                                                                         *)
(* Spec is the whole program on the trees, the databases and the flags     *)
(* listed below.  AloneSpec is checkFile from the return of ioutil.ReadAll *)
(* on, for every content made of a few fragments; FlagSpec is the calls of *)
(* FileExtensions.Set, for every short value.                              *)
(*                                                                         *)
(* Bytes are integers 0..255, a byte string is a sequence of them.         *)
(***************************************************************************)
EXTENDS Integers, Sequences, FiniteSets, TLC

(***************************************************************************)
(* Bounds of the model.                                                    *)
(***************************************************************************)
\* the largest value of the -n flag that is tried
MaxProcs == 2

(***************************************************************************)
(* Program constants.                                                      *)
(***************************************************************************)
\* const MAXFILESIZE = 2 * 1024 * 1024
MAXFILESIZE == 2 * 1024 * 1024
\* make(chan string, 10)
QueueCap == 10
\* head := make([]byte, 512)
HeadSize == 512

(***************************************************************************)
(* Byte strings.                                                           *)
(***************************************************************************)
Ascii ==
  [c \in {"e", "v", "a", "l", "h", "i", "x", "X", "z", "'", "\"", ".", " ",
          "/", "*", "\\", "(", "0", "1", "4", "5", "6", "8", "c", "2",
          "7", ","} |->
     CASE c = "e" -> 101 [] c = "v" -> 118 [] c = "a" -> 97 [] c = "l" -> 108
       [] c = "h" -> 104 [] c = "i" -> 105 [] c = "x" -> 120 [] c = "X" -> 88
       [] c = "z" -> 122 [] c = "'" -> 39 [] c = "\"" -> 34 [] c = "." -> 46
       [] c = " " -> 32 [] c = "/" -> 47 [] c = "*" -> 42 [] c = "\\" -> 92
       [] c = "(" -> 40 [] c = "0" -> 48 [] c = "1" -> 49 [] c = "4" -> 52
       [] c = "5" -> 53 [] c = "6" -> 54 [] c = "8" -> 56 [] c = "c" -> 99
       [] c = "2" -> 50 [] c = "7" -> 55 [] c = "," -> 44]

\* the byte string spelled by a tuple of one-character strings
B(s) == [i \in DOMAIN s |-> Ascii[s[i]]]

IsQuote(b) == b \in {39, 34}
\* \s of Go's regexp: [\t\n\f\r ]
IsSpace(b) == b \in {9, 10, 12, 13, 32}
IsDigit(b) == b \in 48..57
IsHexDigit(b) == b \in (48..57) \cup (97..102) \cup (65..70)
HexVal(b) == IF b \in 48..57 THEN b - 48
             ELSE IF b \in 97..102 THEN b - 87 ELSE b - 55

\* bytes.Contains for a literal: sub occurs in c
Contains(c, sub) ==
  \E i \in 0..(Len(c) - Len(sub)) :
    \A k \in 1..Len(sub) : c[i + k] = sub[k]

(***************************************************************************)
(* The normalizers (compileNormalizers) and checkFile's use of them.       *)
(* A compiled expression is named by what it matches; MatchLen gives the   *)
(* length of its match that starts at byte i of c, 0 when there is none    *)
(* (none of the four expressions matches the empty string).                *)
(***************************************************************************)
RECURSIVE SkipSpace(_, _)
\* the first index >= i of c that holds no white space (Len(c)+1 at most)
SkipSpace(c, i) ==
  IF i <= Len(c) /\ IsSpace(c[i]) THEN SkipSpace(c, i + 1) ELSE i

\* (?si:[\'"]\s*?\.\s*?[\'"])
MatchQuoteDot(c, i) ==
  IF ~IsQuote(c[i]) THEN 0
  ELSE LET j == SkipSpace(c, i + 1) IN
       IF j > Len(c) \/ c[j] # 46 THEN 0
       ELSE LET k == SkipSpace(c, j + 1) IN
            IF k <= Len(c) /\ IsQuote(c[k]) THEN k - i + 1 ELSE 0

\* (?si:/\*.*?\*/)
MatchComment(c, i) ==
  IF ~(i + 3 <= Len(c) /\ c[i] = 47 /\ c[i + 1] = 42) THEN 0
  ELSE LET ends == {j \in (i + 2)..(Len(c) - 1) : c[j] = 42 /\ c[j + 1] = 47} IN
       IF ends = {} THEN 0
       ELSE (CHOOSE j \in ends : \A k \in ends : j <= k) + 1 - i + 1

\* (?i:\\x([a-fA-F0-9]{1,2}))
MatchHex(c, i) ==
  IF ~(i + 2 <= Len(c) /\ c[i] = 92 /\ c[i + 1] \in {120, 88}
       /\ IsHexDigit(c[i + 2])) THEN 0
  ELSE IF i + 3 <= Len(c) /\ IsHexDigit(c[i + 3]) THEN 4 ELSE 3

\* \\([0-9]{1,3})
MatchOctal(c, i) ==
  IF ~(i + 1 <= Len(c) /\ c[i] = 92 /\ IsDigit(c[i + 1])) THEN 0
  ELSE IF ~(i + 2 <= Len(c) /\ IsDigit(c[i + 2])) THEN 2
  ELSE IF ~(i + 3 <= Len(c) /\ IsDigit(c[i + 3])) THEN 3 ELSE 4

\* exprs, in the order compileNormalizers compiles them
compileNormalizers == <<"quotedot", "comment", "hex", "octal">>

MatchLen(r, c, i) ==
  CASE r = "quotedot" -> MatchQuoteDot(c, i)
    [] r = "comment" -> MatchComment(c, i)
    [] r = "hex" -> MatchHex(c, i)
    [] r = "octal" -> MatchOctal(c, i)

\* a faulty unquoteStr: on an error it returns the span as it is
unquoteStrKeeps(s) ==
  IF s[2] \in {120, 88}
  THEN IF s[2] = 120 /\ Len(s) = 4
       THEN <<16 * HexVal(s[3]) + HexVal(s[4])>>
       ELSE s
  ELSE IF Len(s) = 4 /\ (\A k \in 2..4 : s[k] \in 48..55)
          /\ 64 * (s[2] - 48) + 8 * (s[3] - 48) + (s[4] - 48) <= 255
       THEN <<64 * (s[2] - 48) + 8 * (s[3] - 48) + (s[4] - 48)>>
       ELSE s

\* strconv.Unquote("'" + s + "'") on a span one of the two escape
\* expressions matched: \xHH needs a lower-case x and two hex digits, \OOO
\* needs three octal digits and a value of at most 255; any other span is a
\* syntax error, for which unquoteStr returns the empty byte string.
unquoteStr(s) ==
  IF s[2] \in {120, 88}
  THEN IF s[2] = 120 /\ Len(s) = 4
       THEN <<16 * HexVal(s[3]) + HexVal(s[4])>>
       ELSE <<>>
  ELSE IF Len(s) = 4 /\ (\A k \in 2..4 : s[k] \in 48..55)
          /\ 64 * (s[2] - 48) + 8 * (s[3] - 48) + (s[4] - 48) <= 255
       THEN <<64 * (s[2] - 48) + 8 * (s[3] - 48) + (s[4] - 48)>>
       ELSE <<>>

RECURSIVE ReplaceFrom(_, _, _, _)
\* Regexp.ReplaceAll (decode = FALSE: every match becomes the empty string)
\* and Regexp.ReplaceAllFunc with unquoteStr (decode = TRUE), from byte i on:
\* leftmost matches, none overlapping, the output is not scanned again.
ReplaceFrom(r, c, i, decode) ==
  IF i > Len(c) THEN <<>>
  ELSE LET n == MatchLen(r, c, i) IN
       IF n = 0 THEN <<c[i]>> \o ReplaceFrom(r, c, i + 1, decode)
       ELSE (IF decode THEN unquoteStr(SubSeq(c, i, i + n - 1)) ELSE <<>>)
            \o ReplaceFrom(r, c, i + n, decode)

\* a faulty checkFile: the loop over nr[2:] comes before the loop over nr[:2]
ReplacementsDecodeFirst(nr) ==
  [k \in 1..Len(nr) |->
     IF k <= Len(nr) - 2 THEN [r |-> nr[k + 2], decode |-> TRUE]
     ELSE [r |-> nr[k - (Len(nr) - 2)], decode |-> FALSE]]

\* checkFile, "Normalize content": the calls the two loops make, in order:
\* r.ReplaceAll(c, []byte{}) for the r of nr[:2], then
\* r.ReplaceAllFunc(c, unquoteStr) for the r of nr[2:]
Replacements(nr) ==
  [k \in 1..Len(nr) |-> [r |-> nr[k], decode |-> k > 2]]

\* checkFile, "Normalize content": nr[:2] delete, nr[2:] decode
NormalizeBytes(nr, c) ==
  LET c1 == ReplaceFrom(nr[1], c, 1, FALSE)
      c2 == ReplaceFrom(nr[2], c1, 1, FALSE)
      c3 == ReplaceFrom(nr[3], c2, 1, TRUE)
  IN  ReplaceFrom(nr[4], c3, 1, TRUE)

(***************************************************************************)
(* The signature database (type Database, type Signature, readDatabase).   *)
(* A pattern is a byte string.  The patterns of the model are literals,    *)
(* which regexp.Compile accepts and which match a content that contains    *)
(* them, and patterns with an unclosed "(", which regexp.Compile rejects   *)
(* (missing closing parenthesis).                                          *)
(***************************************************************************)
NoRegexp == [ok |-> FALSE, re |-> <<>>]

RawSig(id, title, sever, pattern) ==
  [Id |-> id, Title |-> title, Type |-> sever, Signature |-> pattern,
   Regexp |-> NoRegexp]

\* regexp.Compile
RegexpCompile(pattern) ==
  IF \E k \in DOMAIN pattern : pattern[k] = 40
  THEN [ok |-> FALSE, re |-> <<>>]
  ELSE [ok |-> TRUE, re |-> pattern]

\* Regexp.Match
RegexpMatch(regexp, c) == regexp.ok /\ Contains(c, regexp.re)

\* the documents -database may name: decodeErr stands for a failed fetch,
\* open or xml decode
DocMixed ==
  [decodeErr |-> FALSE,
   Signatures |-> << RawSig(1, "soft-ev", "s", B(<<"e", "v">>)),
                     RawSig(2, "crit-zz", "c", B(<<"z", "z">>)),
                     RawSig(3, "crit-al", "c", B(<<"a", "l">>)),
                     RawSig(4, "crit-eval", "c", B(<<"e", "v", "a", "l">>)) >>]
DocSoft ==
  [decodeErr |-> FALSE,
   Signatures |-> << RawSig(5, "soft-eval", "s", B(<<"e", "v", "a", "l">>)),
                     RawSig(6, "other-al", "x", B(<<"a", "l">>)) >>]
DocBadMiddle ==
  [decodeErr |-> FALSE,
   Signatures |-> << RawSig(3, "crit-al", "c", B(<<"a", "l">>)),
                     RawSig(7, "bad", "c", B(<<"e", "v", "(">>)),
                     RawSig(4, "crit-eval", "c", B(<<"e", "v", "a", "l">>)) >>]
DocBadLast ==
  [decodeErr |-> FALSE,
   Signatures |-> << RawSig(3, "crit-al", "c", B(<<"a", "l">>)),
                     RawSig(8, "bad-soft", "s", B(<<"(">>)) >>]
DocEmpty == [decodeErr |-> FALSE, Signatures |-> <<>>]
DocGarbled == [decodeErr |-> TRUE, Signatures |-> <<>>]
\* a document whose patterns are made of quotes and dots
DocProbe ==
  [decodeErr |-> FALSE,
   Signatures |-> << RawSig(7, "quotes", "c", B(<<"'", "'">>)),
                     RawSig(8, "joint", "c", B(<<"'", ".", "'">>)) >>]

\* the values of -database that are tried, and the document each names
Databases ==
  {"mixed.xml", "soft.xml", "bad-middle.xml", "bad-last.xml", "empty.xml",
   "garbled.xml"}
Document(name) ==
  CASE name = "mixed.xml" -> DocMixed
    [] name = "soft.xml" -> DocSoft
    [] name = "bad-middle.xml" -> DocBadMiddle
    [] name = "bad-last.xml" -> DocBadLast
    [] name = "empty.xml" -> DocEmpty
    [] name = "garbled.xml" -> DocGarbled
    [] name = "probe.xml" -> DocProbe

\* the loop of lines 226-232: db.Signatures[i].Regexp = r for every i
CompileAll(sigs) ==
  [i \in DOMAIN sigs |-> [sigs[i] EXCEPT !.Regexp = RegexpCompile(sigs[i].Signature)]]

IsCompiled(sig) == sig.Regexp.ok

\* a faulty test: everything not marked soft is kept
IsCriticalLoose(sig) == sig.Type # "s"

IsCritical(sig) == sig.Type = "c"

\* a faulty readDatabase: a signature that does not compile is left out
readDatabaseSkipsBad(doc, skipsoft) ==
  IF doc.decodeErr THEN [err |-> "decode", Signatures |-> <<>>]
  ELSE IF Len(doc.Signatures) = 0
  THEN [err |-> "no signatures loaded", Signatures |-> <<>>]
  ELSE LET compiled == SelectSeq(CompileAll(doc.Signatures), IsCompiled) IN
       IF skipsoft
       THEN [err |-> "", Signatures |-> SelectSeq(compiled, IsCritical)]
       ELSE [err |-> "", Signatures |-> compiled]

\* readDatabase: [err, Signatures]; err is "" on success
readDatabase(doc, skipsoft) ==
  IF doc.decodeErr THEN [err |-> "decode", Signatures |-> <<>>]
  ELSE IF Len(doc.Signatures) = 0
  THEN [err |-> "no signatures loaded", Signatures |-> <<>>]
  ELSE LET compiled == CompileAll(doc.Signatures) IN
       IF \E i \in DOMAIN compiled : ~compiled[i].Regexp.ok
       THEN [err |-> "failed to compile signature", Signatures |-> <<>>]
       ELSE IF skipsoft
       THEN [err |-> "", Signatures |-> SelectSeq(compiled, IsCritical)]
       ELSE [err |-> "", Signatures |-> compiled]

(***************************************************************************)
(* The directory tree -rootdir names: the entries in the order in which    *)
(* filepath.Walk visits them (lexical, a directory before its entries).    *)
(* An entry holds what the system calls on it return: parent is the index  *)
(* of its directory (0 for the root), lstatErr and readDirErr are the      *)
(* failures filepath.Walk hands to walkFn, the others are what checkFile   *)
(* meets.  size is what Stat reports; content stands for the bytes of the  *)
(* file that matter to the normalizers and the signatures: its first bytes *)
(* (what follows them, up to size, is matched by no expression); mime is   *)
(* what http.DetectContentType answers on the first 512 bytes.             *)
(***************************************************************************)
Mime(major, minor, param) == [major |-> major, minor |-> minor, param |-> param]
TextPlain == Mime("text", "plain", "; charset=utf-8")
TextXml == Mime("text", "xml", "; charset=utf-8")
ImageJpeg == Mime("image", "jpeg", "")
ImagePng == Mime("image", "png", "")
OctetStream == Mime("application", "octet-stream", "")

File(path, parent, ext, size, mime, content) ==
  [path |-> path, parent |-> parent, isDir |-> FALSE, ext |-> ext,
   lstatErr |-> FALSE, readDirErr |-> FALSE,
   openErr |-> FALSE, headErr |-> FALSE, seekErr |-> FALSE,
   statErr |-> FALSE, readErr |-> FALSE,
   size |-> size, mime |-> mime, content |-> content]

Dir(path, parent) ==
  [File(path, parent, "", 4096, OctetStream, <<>>) EXCEPT !.isDir = TRUE]

Eval == B(<<"e", "v", "a", "l">>)

TreeSite ==
  << Dir("www", 0),
     File("www/a.php", 1, ".php", 9, TextPlain,
          B(<<"'", "e", "v", "'", ".", "'", "a", "l", "'">>)),
     [File("www/b.php", 1, ".php", 4, TextPlain, Eval) EXCEPT !.openErr = TRUE],
     File("www/big.php", 1, ".php", MAXFILESIZE + 1, TextPlain, Eval),
     File("www/c.js", 1, ".js", 7, TextPlain,
          B(<<"\\", "x", "6", "5", "v", "a", "l">>)),
     File("www/d.jpg", 1, ".jpg", MAXFILESIZE + 1, ImageJpeg, Eval),
     [File("www/e.php", 1, ".php", 4, TextPlain, Eval) EXCEPT !.statErr = TRUE],
     File("www/edge.php", 1, ".php", MAXFILESIZE, TextPlain,
          B(<<"/", "*", "x", "*", "/", "a", "l">>)),
     [File("www/f.php", 1, ".php", 4, TextPlain, Eval) EXCEPT !.readErr = TRUE],
     [File("www/lost", 1, "", 0, OctetStream, <<>>) EXCEPT !.lstatErr = TRUE],
     [Dir("www/priv", 1) EXCEPT !.readDirErr = TRUE],
     File("www/priv/x.php", 11, ".php", 4, TextPlain, Eval),
     Dir("www/sub", 1),
     File("www/sub/i.php", 13, ".php", 2, ImageJpeg, B(<<"a", "l">>)),
     File("www/sub/j.php", 13, ".php", 0, TextPlain, <<>>),
     [File("www/sub/k.xml", 13, ".xml", 4, TextXml, Eval) EXCEPT !.seekErr = TRUE] >>

\* -rootdir names a directory that does not exist
TreeMissing ==
  << [Dir("nowhere", 0) EXCEPT !.lstatErr = TRUE] >>

\* -rootdir names one file
TreeOneFile ==
  << File("shell.php", 0, ".php", 4, TextPlain, Eval) >>

\* -rootdir names one file, an image, on a device whose first read fails
TreeFlaky ==
  << [File("logo.png", 0, ".png", 4, ImagePng, Eval) EXCEPT !.headErr = TRUE] >>

\* the values of -rootdir that are tried, and the tree each names
Roots == {"www", "nowhere", "shell.php", "logo.png"}
FileSystem(root) ==
  CASE root = "www" -> TreeSite
    [] root = "nowhere" -> TreeMissing
    [] root = "shell.php" -> TreeOneFile
    [] root = "logo.png" -> TreeFlaky
Trees == {FileSystem(root) : root \in Roots}

\* The normalized form of every content of the trees, computed once:
\* Normalize is NormalizeBytes, looked up where the table holds the answer.
Contents == UNION {{t[i].content : i \in DOMAIN t} : t \in Trees}
NormalizeTable == [c \in Contents |-> NormalizeBytes(compileNormalizers, c)]
Normalize(nr, c) ==
  IF nr = compileNormalizers /\ c \in Contents
  THEN NormalizeTable[c]
  ELSE NormalizeBytes(nr, c)

RECURSIVE IsUnder(_, _, _)
\* entry j lies in the directory i, at any depth
IsUnder(tree, j, i) ==
  LET up == tree[j].parent IN
  IF up = 0 THEN FALSE ELSE up = i \/ IsUnder(tree, up, i)

\* filepath.Walk: the entry visited after entry i; the entries of a
\* directory whose names could not be read are not visited
NextEntry(tree, i) ==
  IF tree[i].lstatErr \/ (tree[i].isDir /\ tree[i].readDirErr)
  THEN LET rest == {j \in (i + 1)..Len(tree) : ~IsUnder(tree, j, i)} IN
       IF rest = {} THEN Len(tree) + 1
       ELSE CHOOSE j \in rest : \A k \in rest : j <= k
  ELSE i + 1

(***************************************************************************)
(* Log lines and match lines.                                              *)
(***************************************************************************)
LogLine(prefix, msg, path) == [prefix |-> prefix, msg |-> msg, path |-> path]

RECURSIVE Itoa(_)
\* the verb %d of fmt: the decimal digits of n >= 0
Itoa(n) ==
  LET digit == <<"0", "1", "2", "3", "4", "5", "6", "7", "8", "9">> IN
  IF n < 10 THEN <<digit[n + 1]>>
  ELSE Itoa(n \div 10) \o <<digit[(n % 10) + 1]>>

\* fmt.Printf("Matched: %s (signature id = %d): %s\n", s.Title, s.Id, path):
\* the text of the one write that the call makes on os.Stdout
Printf(title, id, path) ==
  <<"Matched: ", title, " (signature id = ">> \o Itoa(id)
     \o <<"): ", path, "\n">>

\* an element of stdout is one write on os.Stdout (a write is not interleaved
\* with another: os.File serializes the writes on a file); title, id and
\* path say whose line it is
MatchLine(sig, path) ==
  [title |-> sig.Title, id |-> sig.Id, path |-> path,
   text |-> Printf(sig.Title, sig.Id, path)]

(***************************************************************************)
(* walkFn: what one call does.  send says whether it reaches               *)
(* "cPaths <- path"; ret is the error it returns to filepath.Walk.         *)
(* walkFnAborts is a faulty walkFn that returns the error it was given.    *)
(***************************************************************************)
walkFnAborts(e, ffilter) ==
  IF e.lstatErr \/ (e.isDir /\ e.readDirErr)
  THEN [log |-> {LogLine("[fatal]", "walk error", e.path)},
        send |-> FALSE, ret |-> "err"]
  ELSE IF e.isDir
  THEN [log |-> {}, send |-> FALSE, ret |-> "nil"]
  ELSE IF e.ext \notin ffilter /\ Cardinality(ffilter) > 0
  THEN [log |-> {}, send |-> FALSE, ret |-> "nil"]
  ELSE [log |-> {}, send |-> TRUE, ret |-> "nil"]

\* a faulty walkFn: the test of line 264 is lost
walkFnKeepsAll(e, ffilter) ==
  IF e.lstatErr \/ (e.isDir /\ e.readDirErr)
  THEN [log |-> {LogLine("[fatal]", "walk error", e.path)},
        send |-> FALSE, ret |-> "nil"]
  ELSE IF e.isDir
  THEN [log |-> {}, send |-> FALSE, ret |-> "nil"]
  ELSE [log |-> {}, send |-> TRUE, ret |-> "nil"]

walkFn(e, ffilter) ==
  IF e.lstatErr \/ (e.isDir /\ e.readDirErr)
  THEN [log |-> {LogLine("[fatal]", "walk error", e.path)},
        send |-> FALSE, ret |-> "nil"]
  ELSE IF e.isDir
  THEN [log |-> {}, send |-> FALSE, ret |-> "nil"]
  ELSE IF e.ext \notin ffilter /\ Cardinality(ffilter) > 0
  THEN [log |-> {}, send |-> FALSE, ret |-> "nil"]
  ELSE [log |-> {}, send |-> TRUE, ret |-> "nil"]

(***************************************************************************)
(* checkFile: what one call does to one file.  log and out are the lines   *)
(* it writes, end the place where it returns, readAll whether it called    *)
(* ioutil.ReadAll, tested the ids of the signatures whose Regexp.Match it  *)
(* called, in order, and content the bytes they were matched against.      *)
(***************************************************************************)
Warning(path, msg) == {LogLine("[warning]", msg, path)}

Returns(end, log, readAll) ==
  [end |-> end, log |-> log, out |-> <<>>, readAll |-> readAll, offset |-> 0,
   tested |-> <<>>, content |-> <<>>]

\* strings.HasPrefix(mimeType, "text/") or strings.HasSuffix(mimeType, "/xml")
IsTextOrXml(mime) ==
  mime.major = "text" \/ (mime.minor = "xml" /\ mime.param = "")

RECURSIVE TestFromNoStop(_, _, _, _)
\* a faulty loop: it goes on after a match (the return of line 173 is lost)
TestFromNoStop(signatures, c, path, i) ==
  IF i > Len(signatures) THEN [tested |-> <<>>, out |-> <<>>]
  ELSE LET rest == TestFromNoStop(signatures, c, path, i + 1) IN
       [tested |-> <<signatures[i].Id>> \o rest.tested,
        out |-> (IF RegexpMatch(signatures[i].Regexp, c)
                 THEN <<MatchLine(signatures[i], path)>> ELSE <<>>) \o rest.out]

RECURSIVE TestFromInPieces(_, _, _, _)
\* a faulty loop: the line is printed by two calls, so in two writes
TestFromInPieces(signatures, c, path, i) ==
  IF i > Len(signatures) THEN [tested |-> <<>>, out |-> <<>>]
  ELSE IF RegexpMatch(signatures[i].Regexp, c)
  THEN LET line == MatchLine(signatures[i], path) IN
       [tested |-> <<signatures[i].Id>>,
        out |-> << [line EXCEPT !.text = SubSeq(line.text, 1, Len(line.text) - 2)],
                   [line EXCEPT !.text = SubSeq(line.text, Len(line.text) - 1,
                                                Len(line.text))] >>]
  ELSE LET rest == TestFromInPieces(signatures, c, path, i + 1) IN
       [tested |-> <<signatures[i].Id>> \o rest.tested, out |-> rest.out]

RECURSIVE TestFrom(_, _, _, _)
\* the loop of lines 170-175 from signature i on: [tested, out]
TestFrom(signatures, c, path, i) ==
  IF i > Len(signatures) THEN [tested |-> <<>>, out |-> <<>>]
  ELSE IF RegexpMatch(signatures[i].Regexp, c)
  THEN [tested |-> <<signatures[i].Id>>,
        out |-> <<MatchLine(signatures[i], path)>>]
  ELSE LET rest == TestFrom(signatures, c, path, i + 1) IN
       [tested |-> <<signatures[i].Id>> \o rest.tested, out |-> rest.out]

\* a faulty size check: the ceiling itself is refused
TooBigFromCeiling(size) == size >= MAXFILESIZE

\* line 152: st.Size() > MAXFILESIZE
TooBig(size) == size > MAXFILESIZE

\* f.Read(head) fails: an error of the device, or io.EOF on an empty file
HeadReadFails(f) == f.headErr \/ f.size = 0

\* the read position after f.Read(head): the n bytes read are behind it
AfterHead(f) ==
  IF HeadReadFails(f) THEN 0
  ELSE IF f.size < HeadSize THEN f.size ELSE HeadSize

\* a faulty seek: the read position stays where it is
SeekStays(offset) == offset

\* f.Seek(0, os.SEEK_SET): the read position it leaves
SeekStart(offset) == 0

\* the read position at "c, err := ioutil.ReadAll(f)"
ReadPosition(f, ffilter) ==
  IF Cardinality(ffilter) = 0 THEN SeekStart(AfterHead(f)) ELSE 0

\* ioutil.ReadAll(f): the bytes from the read position to the end
ReadAll(f, offset) == SubSeq(f.content, offset + 1, Len(f.content))

checkFile(f, signatures, nr, ffilter) ==
  IF f.openErr THEN Returns("open", Warning(f.path, "open"), FALSE)
  ELSE IF Cardinality(ffilter) = 0 /\ ~HeadReadFails(f) /\ ~IsTextOrXml(f.mime)
  THEN Returns("sniff", {}, FALSE)
  ELSE IF Cardinality(ffilter) = 0 /\ f.seekErr
  THEN Returns("seek", Warning(f.path, "seek"), FALSE)
  ELSE IF f.statErr THEN Returns("stat", Warning(f.path, "stat"), FALSE)
  ELSE IF TooBig(f.size)
  THEN Returns("size", Warning(f.path, "file size more than 2M"), FALSE)
  ELSE IF f.readErr THEN Returns("read", Warning(f.path, "read"), TRUE)
  ELSE LET offset == ReadPosition(f, ffilter)
           c == Normalize(nr, ReadAll(f, offset))
           m == TestFrom(signatures, c, f.path, 1)
       IN  [end |-> "match", log |-> {}, out |-> m.out, readAll |-> TRUE,
            offset |-> offset, tested |-> m.tested, content |-> c]

(***************************************************************************)
(* The state.                                                              *)
(***************************************************************************)
VARIABLES
  nFlag,        \* history: the value -n was given
  MAXPROCS,     \* -n
  SKIPSOFT,     \* -skip-soft
  FFILTER,      \* -filter
  DBFILE,       \* -database
  ROOTDIR,      \* -rootdir
  mainPc,       \* where main is
  normalizers,  \* main's normalizers
  db,           \* main's db.Signatures
  spawned,      \* main's loop counter i
  wg,           \* the WaitGroup's counter
  made,         \* walk has made cPaths
  cPaths,       \* the paths buffered in the channel, as indexes of Tree
  closed,       \* the channel is closed
  prodPc,       \* where the goroutine of walk is
  pos,          \* the entry filepath.Walk visits next
  wPc,          \* where each worker is
  wPath,        \* the path each worker holds (0: none)
  stdout,       \* the match lines printed, in order
  stderr,       \* the log lines written
  pushed,       \* history: the paths sent into the channel, in order
  taken,        \* history: how many times each path was received
  checked,      \* history: how many calls of checkFile each path got
  result,       \* history: what the last checkFile of each path did
  flagValue,    \* history: the value the last FFILTER.Set was given
  liFirst,      \* history: FFILTER as the first FFILTER.Set left it
  flagErr,      \* what the last FFILTER.Set returned ("": nil)
  nSet,         \* history: how many calls of FFILTER.Set were made
  cRead,        \* checkFile taken alone: the bytes ioutil.ReadAll returned
  cNorm,        \* checkFile taken alone: its c
  nrNext        \* checkFile taken alone: how many normalizers were applied

vars ==
  <<nFlag, MAXPROCS, SKIPSOFT, FFILTER, DBFILE, ROOTDIR, mainPc, normalizers, db,
    spawned, wg, made, cPaths, closed, prodPc, pos, wPc, wPath, stdout,
    stderr, pushed, taken, checked, result, flagValue, liFirst, flagErr, nSet,
    cRead, cNorm, nrNext>>

config == <<nFlag, SKIPSOFT, FFILTER, DBFILE, ROOTDIR>>
mainVars == <<mainPc, normalizers, db, spawned>>
prodVars == <<prodPc, pos, pushed>>
workVars == <<wPc, wPath, taken, checked, result>>
flagVars == <<flagValue, liFirst, flagErr, nSet>>
aloneVars == <<cRead, cNorm, nrNext>>

\* the document and the tree the flags name
Doc == Document(DBFILE)
Tree == FileSystem(ROOTDIR)

Workers == 1..MaxProcs
ProcsRequested == (-1)..MaxProcs
Filters == {{}, {".php"}, {".js", ".xml"}}
NoResult == Returns("none", {}, FALSE)

Init ==
  /\ nFlag \in ProcsRequested
  /\ MAXPROCS = nFlag
  /\ SKIPSOFT \in BOOLEAN
  /\ FFILTER \in Filters
  /\ DBFILE \in Databases
  /\ ROOTDIR \in Roots
  /\ mainPc = "clamp"
  /\ normalizers = <<>>
  /\ db = <<>>
  /\ spawned = 0
  /\ wg = 0
  /\ made = FALSE
  /\ cPaths = <<>>
  /\ closed = FALSE
  /\ prodPc = "idle"
  /\ pos = 0
  /\ wPc = [w \in Workers |-> "idle"]
  /\ wPath = [w \in Workers |-> 0]
  /\ stdout = <<>>
  /\ stderr = {}
  /\ pushed = <<>>
  /\ taken = [i \in DOMAIN Tree |-> 0]
  /\ checked = [i \in DOMAIN Tree |-> 0]
  /\ result = [i \in DOMAIN Tree |-> NoResult]
  /\ flagValue = <<>> /\ liFirst = {} /\ flagErr = "" /\ nSet = 0
  /\ cRead = <<>> /\ cNorm = <<>> /\ nrNext = 0

\* the process runs: main has neither returned nor called log.Fatalln
Running == mainPc \notin {"done", "fatal"}

(***************************************************************************)
(* main                                                                    *)
(***************************************************************************)
\* a faulty clamp: none
ClampNot(n) == n

\* lines 80-82
Clamp(n) == IF n < 1 THEN 1 ELSE n

MainClamp ==
  /\ mainPc = "clamp"
  /\ MAXPROCS' = Clamp(MAXPROCS)
  /\ mainPc' = "normalizers"
  /\ UNCHANGED <<config, flagVars, aloneVars,
                 normalizers, db, spawned, wg, made, cPaths, closed,
                 prodVars, workVars, stdout, stderr>>

\* lines 84-87; the four expressions compile
MainCompileNormalizers ==
  /\ mainPc = "normalizers"
  /\ normalizers' = compileNormalizers
  /\ mainPc' = "database"
  /\ UNCHANGED <<MAXPROCS, config, flagVars, aloneVars,
                 db, spawned, wg, made, cPaths, closed,
                 prodVars, workVars, stdout, stderr>>

\* lines 89-92
MainReadDatabase ==
  /\ mainPc = "database"
  /\ LET r == readDatabase(Doc, SKIPSOFT) IN
     IF r.err # ""
     THEN /\ stderr' = stderr \cup {LogLine("[fatal]", "database error", "")}
          /\ mainPc' = "fatal"
          /\ db' = db
     ELSE /\ db' = r.Signatures
          /\ mainPc' = "walk"
          /\ stderr' = stderr
  /\ UNCHANGED <<MAXPROCS, config, flagVars, aloneVars,
                 normalizers, spawned, wg, made, cPaths,
                 closed, prodVars, workVars, stdout>>

\* line 94: walk makes the channel and starts its goroutine
MainWalk ==
  /\ mainPc = "walk"
  /\ made' = TRUE
  /\ prodPc' = "walk"
  /\ pos' = 1
  /\ mainPc' = "spawn"
  /\ UNCHANGED <<MAXPROCS, config, flagVars, aloneVars,
                 normalizers, db, spawned, wg, cPaths,
                 closed, pushed, workVars, stdout, stderr>>

\* lines 98-101, one turn of the loop
MainSpawn ==
  /\ mainPc = "spawn"
  /\ spawned < MAXPROCS
  /\ wg' = wg + 1
  /\ wPc' = [wPc EXCEPT ![spawned + 1] = "recv"]
  /\ spawned' = spawned + 1
  /\ UNCHANGED <<MAXPROCS, config, flagVars, aloneVars,
                 mainPc, normalizers, db, made, cPaths,
                 closed, prodVars, wPath, taken, checked, result, stdout,
                 stderr>>

\* wg.Wait returns when the counter is 0
WaitReturns(counter) == counter = 0

\* line 102, after the loop has ended, and the return of main
MainWait ==
  /\ mainPc = "spawn"
  /\ ~(spawned < MAXPROCS)
  /\ WaitReturns(wg)
  /\ mainPc' = "done"
  /\ UNCHANGED <<MAXPROCS, config, flagVars, aloneVars,
                 normalizers, db, spawned, wg, made,
                 cPaths, closed, prodVars, workVars, stdout, stderr>>

(***************************************************************************)
(* The goroutine of walk (lines 271-276): filepath.Walk calls walkFn on    *)
(* one entry after the other and stops at the first error walkFn returns.  *)
(***************************************************************************)
\* the entry visited after entry i when walkFn returned ret on it
WalkOn(tree, i, ret) ==
  IF ret = "nil" THEN NextEntry(tree, i) ELSE Len(tree) + 1

\* walkFn up to its send or its return
ProducerVisit ==
  /\ Running
  /\ prodPc = "walk"
  /\ pos <= Len(Tree)
  /\ LET r == walkFn(Tree[pos], FFILTER) IN
     /\ stderr' = stderr \cup r.log
     /\ IF r.send
        THEN prodPc' = "send" /\ pos' = pos
        ELSE prodPc' = "walk" /\ pos' = WalkOn(Tree, pos, r.ret)
  /\ UNCHANGED <<MAXPROCS, config, flagVars, aloneVars,
                 mainVars, wg, made, cPaths, closed, pushed,
                 workVars, stdout>>

\* a faulty channel: one slot too many
CanSendOneMore(buffer) == Len(buffer) <= QueueCap

\* a send on a buffered channel goes through when the buffer has room
CanSend(buffer) == Len(buffer) < QueueCap

\* a faulty channel: what was sent last is received first
SendInFront(buffer, p) == <<p>> \o buffer

\* what a send leaves in the buffer: a channel is a queue
Send(buffer, p) == Append(buffer, p)

\* line 267, "cPaths <- path", and the return of walkFn
ProducerSend ==
  /\ Running
  /\ prodPc = "send"
  /\ CanSend(cPaths)
  /\ cPaths' = Send(cPaths, pos)
  /\ pushed' = Append(pushed, pos)
  /\ pos' = WalkOn(Tree, pos, "nil")
  /\ prodPc' = "walk"
  /\ UNCHANGED <<MAXPROCS, config, flagVars, aloneVars,
                 mainVars, wg, made, closed, workVars,
                 stdout, stderr>>

\* a faulty goroutine: it closes the channel before the walk, not after
ProducerCloseFirst ==
  /\ Running
  /\ prodPc = "walk"
  /\ ~closed
  /\ closed' = TRUE
  /\ UNCHANGED <<MAXPROCS, config, flagVars, aloneVars, mainVars, wg, made,
                 cPaths, prodVars, workVars, stdout, stderr>>

\* filepath.Walk has returned: the deferred close(cPaths)
ProducerClose ==
  /\ Running
  /\ prodPc = "walk"
  /\ pos > Len(Tree)
  /\ closed' = TRUE
  /\ prodPc' = "done"
  /\ UNCHANGED <<MAXPROCS, config, flagVars, aloneVars,
                 mainVars, wg, made, cPaths, pos, pushed,
                 workVars, stdout, stderr>>

(***************************************************************************)
(* worker (lines 105-111)                                                  *)
(***************************************************************************)
\* a faulty receive: the path stays in the buffer
AfterRecvKeeps(buffer) == buffer

\* what a receive leaves in the buffer
AfterRecv(buffer) == Tail(buffer)

\* "for p := range cPaths": a path is received
WorkerRecv(w) ==
  /\ Running
  /\ wPc[w] = "recv"
  /\ cPaths # <<>>
  /\ wPath' = [wPath EXCEPT ![w] = Head(cPaths)]
  /\ taken' = [taken EXCEPT ![Head(cPaths)] = @ + 1]
  /\ cPaths' = AfterRecv(cPaths)
  /\ wPc' = [wPc EXCEPT ![w] = "check"]
  /\ UNCHANGED <<MAXPROCS, config, flagVars, aloneVars,
                 mainVars, wg, made, closed, prodVars,
                 checked, result, stdout, stderr>>

\* a faulty worker: it returns when checkFile has logged a failure
WorkerCheckFileGivesUp(w) ==
  /\ Running
  /\ wPc[w] = "check"
  /\ LET r == checkFile(Tree[wPath[w]], db, normalizers, FFILTER) IN
     /\ stdout' = stdout \o r.out
     /\ stderr' = stderr \cup r.log
     /\ result' = [result EXCEPT ![wPath[w]] = r]
     /\ wPc' = [wPc EXCEPT ![w] = IF r.log = {} THEN "recv" ELSE "exited"]
     /\ wg' = IF r.log = {} THEN wg ELSE wg - 1
  /\ checked' = [checked EXCEPT ![wPath[w]] = @ + 1]
  /\ wPath' = [wPath EXCEPT ![w] = 0]
  /\ UNCHANGED <<MAXPROCS, config, flagVars, aloneVars,
                 mainVars, made, cPaths, closed,
                 prodVars, taken>>

\* line 109
WorkerCheckFile(w) ==
  /\ Running
  /\ wPc[w] = "check"
  /\ LET r == checkFile(Tree[wPath[w]], db, normalizers, FFILTER) IN
     /\ stdout' = stdout \o r.out
     /\ stderr' = stderr \cup r.log
     /\ result' = [result EXCEPT ![wPath[w]] = r]
  /\ checked' = [checked EXCEPT ![wPath[w]] = @ + 1]
  /\ wPath' = [wPath EXCEPT ![w] = 0]
  /\ wPc' = [wPc EXCEPT ![w] = "recv"]
  /\ wg' = wg
  /\ UNCHANGED <<MAXPROCS, config, flagVars, aloneVars,
                 mainVars, made, cPaths, closed,
                 prodVars, taken>>

\* a faulty loop end: on a closed channel, drained or not
RangeEndsOnClose(buffer, isClosed) == isClosed

\* the range loop ends on a closed and drained channel
RangeEnds(buffer, isClosed) == isClosed /\ buffer = <<>>

\* the loop ends, the deferred wg.Done runs
WorkerExit(w) ==
  /\ Running
  /\ wPc[w] = "recv"
  /\ RangeEnds(cPaths, closed)
  /\ wPc' = [wPc EXCEPT ![w] = "exited"]
  /\ wg' = wg - 1
  /\ UNCHANGED <<MAXPROCS, config, flagVars, aloneVars,
                 mainVars, made, cPaths, closed, prodVars,
                 wPath, taken, checked, result, stdout, stderr>>

Next ==
  \/ MainClamp
  \/ MainCompileNormalizers
  \/ MainReadDatabase
  \/ MainWalk
  \/ MainSpawn
  \/ MainWait
  \/ ProducerVisit
  \/ ProducerSend
  \/ ProducerClose
  \/ \E w \in Workers : WorkerRecv(w)
  \/ \E w \in Workers : WorkerCheckFile(w)
  \/ \E w \in Workers : WorkerExit(w)

Spec == Init /\ [][Next]_vars

(***************************************************************************)
(* checkFile taken alone, from the return of ioutil.ReadAll on: one worker *)
(* holds the path shell.php, and ReadAll has returned any of the byte      *)
(* strings made of at most MaxParts of the Fragments.  One step is one     *)
(* turn of one of the loops of lines 162-175.                              *)
(***************************************************************************)
\* the bound of this specification: the fragments a content is made of
MaxParts == 4

Fragments ==
  { B(<<"'">>), B(<<".">>), B(<<"/", "*">>), B(<<"*", "/">>), B(<<"\\", "x">>),
    B(<<"\\">>), B(<<"7">>), B(<<"2", "7">>) }

RECURSIVE Concat(_)
Concat(parts) ==
  IF parts = <<>> THEN <<>> ELSE Head(parts) \o Concat(Tail(parts))

\* what ioutil.ReadAll may return
FileBytes ==
  {Concat(parts) : parts \in UNION {[1..n -> Fragments] : n \in 0..MaxParts}}

AloneInit ==
  /\ nFlag = 1 /\ MAXPROCS = 1 /\ SKIPSOFT = FALSE /\ FFILTER = {".php"}
  /\ DBFILE = "probe.xml" /\ ROOTDIR = "shell.php"
  /\ mainPc = "spawn"
  /\ normalizers = compileNormalizers
  /\ db = readDatabase(Document(DBFILE), SKIPSOFT).Signatures
  /\ spawned = 1 /\ wg = 1
  /\ made = TRUE /\ cPaths = <<>> /\ closed = TRUE
  /\ prodPc = "done" /\ pos = 2
  /\ wPc = [w \in Workers |-> IF w = 1 THEN "check" ELSE "idle"]
  /\ wPath = [w \in Workers |-> IF w = 1 THEN 1 ELSE 0]
  /\ stdout = <<>> /\ stderr = {}
  /\ pushed = <<1>>
  /\ taken = [i \in DOMAIN Tree |-> 1]
  /\ checked = [i \in DOMAIN Tree |-> 0]
  /\ result = [i \in DOMAIN Tree |-> NoResult]
  /\ flagValue = <<>> /\ liFirst = {} /\ flagErr = "" /\ nSet = 0
  /\ cRead \in FileBytes
  /\ cNorm = cRead
  /\ nrNext = 1

\* the process-wide variables a step of checkFile leaves alone
aloneFrame ==
  <<MAXPROCS, config, flagVars, mainVars, wg, made, cPaths, closed, prodVars,
    taken, cRead>>

\* lines 162-164: one turn of "for _, r := range nr[:2]"
AloneReplaceAll ==
  /\ wPc[1] = "check"
  /\ nrNext <= Len(normalizers)
  /\ ~Replacements(normalizers)[nrNext].decode
  /\ cNorm' = ReplaceFrom(Replacements(normalizers)[nrNext].r, cNorm, 1, FALSE)
  /\ nrNext' = nrNext + 1
  /\ UNCHANGED <<aloneFrame, wPc, wPath, checked, result, stdout, stderr>>

\* lines 165-167: one turn of "for _, r := range nr[2:]"
AloneReplaceAllFunc ==
  /\ wPc[1] = "check"
  /\ nrNext <= Len(normalizers)
  /\ Replacements(normalizers)[nrNext].decode
  /\ cNorm' = ReplaceFrom(Replacements(normalizers)[nrNext].r, cNorm, 1, TRUE)
  /\ nrNext' = nrNext + 1
  /\ UNCHANGED <<aloneFrame, wPc, wPath, checked, result, stdout, stderr>>

\* lines 170-175: the loop over the signatures, and the return
AloneMatch ==
  /\ wPc[1] = "check"
  /\ nrNext = Len(normalizers) + 1
  /\ LET m == TestFrom(db, cNorm, Tree[wPath[1]].path, 1) IN
     /\ stdout' = stdout \o m.out
     /\ result' = [result EXCEPT ![wPath[1]] =
                     [end |-> "match", log |-> {}, out |-> m.out,
                      readAll |-> TRUE, offset |-> 0, tested |-> m.tested,
                      content |-> cNorm]]
  /\ checked' = [checked EXCEPT ![wPath[1]] = @ + 1]
  /\ wPath' = [wPath EXCEPT ![1] = 0]
  /\ wPc' = [wPc EXCEPT ![1] = "recv"]
  /\ UNCHANGED <<aloneFrame, cNorm, nrNext, stderr>>

AloneNext ==
  \/ AloneReplaceAll
  \/ AloneReplaceAllFunc
  \/ AloneMatch

AloneSpec == AloneInit /\ [][AloneNext]_vars

(***************************************************************************)
(* FileExtensions.Set taken alone: the calls that flag.Parse, or any other *)
(* caller, makes on FFILTER, each with any value of at most MaxValueLen    *)
(* bytes out of ValueBytes.  In this specification an extension is the     *)
(* byte string that spells it.                                             *)
(***************************************************************************)
\* the bounds of this specification: the length of a value, the calls
MaxValueLen == 3
MaxSets == 3

\* comma, space, dot, c, h
ValueBytes == {44, 32, 46, 99, 104}
Values == UNION {[1..n -> ValueBytes] : n \in 0..MaxValueLen}

RECURSIVE Split(_, _)
\* strings.Split(s, sep) for a separator of one byte
Split(s, sep) ==
  LET at == {i \in DOMAIN s : s[i] = sep} IN
  IF at = {} THEN <<s>>
  ELSE LET i == CHOOSE j \in at : \A k \in at : j <= k IN
       <<SubSeq(s, 1, i - 1)>> \o Split(SubSeq(s, i + 1, Len(s)), sep)

\* unicode.IsSpace on a byte below 0x80
IsUnicodeSpace(b) == b \in {9, 10, 11, 12, 13, 32}

RECURSIVE TrimSpace(_)
\* strings.TrimSpace
TrimSpace(s) ==
  IF s = <<>> THEN s
  ELSE IF IsUnicodeSpace(s[1]) THEN TrimSpace(Tail(s))
  ELSE IF IsUnicodeSpace(s[Len(s)]) THEN TrimSpace(SubSeq(s, 1, Len(s) - 1))
  ELSE s

\* the body of the loop of Set: what item s adds to the map
SetItem(s) ==
  LET t == TrimSpace(s) IN
  IF Len(t) = 0 THEN {}
  ELSE IF t[1] = 46 THEN {t}
  ELSE {<<46>> \o t}

\* a faulty Set: it never refuses
SetAgain(li, value) ==
  [err |-> "",
   li |-> li \cup UNION {SetItem(Split(value, 44)[k]) :
                           k \in DOMAIN Split(value, 44)}]

\* func (li *FileExtensions) Set(value string) error
Set(li, value) ==
  IF Cardinality(li) > 0 THEN [err |-> "flag already set", li |-> li]
  ELSE [err |-> "",
        li |-> li \cup UNION {SetItem(Split(value, 44)[k]) :
                                k \in DOMAIN Split(value, 44)}]

FlagInit ==
  /\ nFlag = 1 /\ MAXPROCS = 1 /\ SKIPSOFT = FALSE /\ FFILTER = {}
  /\ DBFILE = "mixed.xml" /\ ROOTDIR = "shell.php"
  /\ mainPc = "parse"
  /\ normalizers = <<>> /\ db = <<>>
  /\ spawned = 0 /\ wg = 0
  /\ made = FALSE /\ cPaths = <<>> /\ closed = FALSE
  /\ prodPc = "idle" /\ pos = 0
  /\ wPc = [w \in Workers |-> "idle"]
  /\ wPath = [w \in Workers |-> 0]
  /\ stdout = <<>> /\ stderr = {}
  /\ pushed = <<>>
  /\ taken = [i \in DOMAIN Tree |-> 0]
  /\ checked = [i \in DOMAIN Tree |-> 0]
  /\ result = [i \in DOMAIN Tree |-> NoResult]
  /\ flagValue = <<>> /\ liFirst = {} /\ flagErr = "" /\ nSet = 0
  /\ cRead = <<>> /\ cNorm = <<>> /\ nrNext = 0

\* one call FFILTER.Set(value)
FlagSet ==
  /\ mainPc = "parse"
  /\ nSet < MaxSets
  /\ \E value \in Values :
       /\ FFILTER' = Set(FFILTER, value).li
       /\ flagErr' = Set(FFILTER, value).err
       /\ flagValue' = value
  /\ liFirst' = IF nSet = 0 THEN FFILTER' ELSE liFirst
  /\ nSet' = nSet + 1
  /\ UNCHANGED <<nFlag, MAXPROCS, SKIPSOFT, DBFILE, ROOTDIR, mainVars, wg,
                 made, cPaths, closed, prodVars, workVars, stdout, stderr,
                 aloneVars>>

FlagNext == FlagSet

FlagSpec == FlagInit /\ [][FlagNext]_vars

(***************************************************************************)
(* Definitions the properties share.                                       *)
(***************************************************************************)
Range(q) == {q[k] : k \in DOMAIN q}
Entries == DOMAIN Tree
PathOf(i) == Tree[i].path
\* the places of stdout that hold a match line for entry i
LinesFor(i) == {k \in DOMAIN stdout : stdout[k].path = PathOf(i)}
WarnedFor(i) ==
  \E l \in stderr : l.prefix = "[warning]" /\ l.path = PathOf(i)
MinOf(S) == CHOOSE k \in S : \A m \in S : k <= m

\* entry i is reached by the walk: no directory above it is unreadable
Reached(tree, i) ==
  \A j \in DOMAIN tree :
    IsUnder(tree, i, j) => ~(tree[j].lstatErr \/ tree[j].readDirErr)
\* the entries of each tree that the walk reaches, computed once
ReachedIn ==
  [root \in Roots |->
     {i \in DOMAIN FileSystem(root) : Reached(FileSystem(root), i)}]
WalkFailsAt(i) ==
  /\ i \in ReachedIn[ROOTDIR]
  /\ Tree[i].lstatErr \/ (Tree[i].isDir /\ Tree[i].readDirErr)
\* entry i is a file the producer has to push
Eligible(i) ==
  /\ i \in ReachedIn[ROOTDIR]
  /\ ~Tree[i].lstatErr
  /\ ~Tree[i].isDir
  /\ (FFILTER = {} \/ Tree[i].ext \in FFILTER)

\* every step of the program lowers Rank, a natural number: no run is
\* infinite
MainRank ==
  CASE mainPc = "clamp" -> MaxProcs + 5
    [] mainPc = "normalizers" -> MaxProcs + 4
    [] mainPc = "database" -> MaxProcs + 3
    [] mainPc = "walk" -> MaxProcs + 2
    [] mainPc = "spawn" -> (MAXPROCS - spawned) + 1
    [] OTHER -> 0
ProducerRank ==
  CASE prodPc = "idle" -> 2 * Len(Tree) + 2
    [] prodPc = "walk" -> 2 * (Len(Tree) + 1 - pos) + 1
    [] prodPc = "send" -> 2 * (Len(Tree) + 1 - pos)
    [] OTHER -> 0
WorkRank ==
  2 * Cardinality({i \in Entries : taken[i] = 0})
  + Cardinality({i \in Entries : taken[i] > 0 /\ checked[i] = 0})
  + Cardinality({w \in Workers : wPc[w] # "exited"})
Rank == MainRank + ProducerRank + WorkRank
RunIsFinite == [][Rank' < Rank]_vars /\ [](Rank >= 0)
\* while the process runs, some goroutine can take a step
NeverStuck == [](Running => ENABLED Next)

(***************************************************************************)
(* C1: a file that reaches signature testing is tested against the active  *)
(* signatures in their order up to the first one that matches its          *)
(* normalized content: if one matches, exactly one match line is printed   *)
(* for the file, with the id and the title of the matching signature of    *)
(* lowest index, and no later signature is tested; if none matches, every  *)
(* signature was tested and no line is printed.                            *)
(***************************************************************************)
C1_FirstMatchWins ==
  \A i \in Entries :
    (checked[i] > 0 /\ result[i].end = "match") =>
      LET c == result[i].content
          M == {k \in DOMAIN db : RegexpMatch(db[k].Regexp, c)}
      IN  IF M = {}
          THEN /\ LinesFor(i) = {}
               /\ result[i].tested = [k \in DOMAIN db |-> db[k].Id]
          ELSE /\ Cardinality(LinesFor(i)) = 1
               /\ \A k \in LinesFor(i) :
                    stdout[k] = MatchLine(db[MinOf(M)], PathOf(i))
               /\ result[i].tested = [k \in 1..MinOf(M) |-> db[k].Id]

\* a file was matched by two signatures, the first of them not the first of
\* the set, and its line is printed
C1_Witness ==
  \E i \in Entries :
    /\ checked[i] > 0 /\ result[i].end = "match"
    /\ LET M == {k \in DOMAIN db : RegexpMatch(db[k].Regexp, result[i].content)}
       IN  Cardinality(M) >= 2 /\ MinOf(M) > 1 /\ LinesFor(i) # {}

(***************************************************************************)
(* C2: every path is sent at most once and received at most once, by one   *)
(* worker; a path is checked at most once, and only by the worker that     *)
(* holds it; at most one match line is printed per path.                   *)
(***************************************************************************)
C2_TakenOnce ==
  \A i \in Entries :
    /\ Cardinality({k \in DOMAIN pushed : pushed[k] = i}) <= 1
    /\ Cardinality({k \in DOMAIN cPaths : cPaths[k] = i}) <= 1
    /\ taken[i] <= 1
    /\ taken[i] = (IF i \in Range(pushed) /\ i \notin Range(cPaths) THEN 1 ELSE 0)
    /\ checked[i] <= taken[i]
    /\ Cardinality({w \in Workers : wPath[w] = i}) =
         (IF taken[i] = 1 /\ checked[i] = 0 THEN 1 ELSE 0)
    /\ Cardinality(LinesFor(i)) <= 1

\* two workers hold two paths at the same time, after a line was printed
C2_Witness ==
  \E v, w \in Workers :
    /\ v # w /\ wPc[v] = "check" /\ wPc[w] = "check"
    /\ wPath[v] # wPath[w]
    /\ stdout # <<>>

(***************************************************************************)
(* C3: close-then-drain.  A path in the channel always has a worker that   *)
(* will take it, also after the close; a worker leaves only when the       *)
(* channel is closed and empty; no run is infinite and none gets stuck; so *)
(* every run ends, and when main has returned the channel is empty and     *)
(* every pushed path was taken and checked once: as many were checked as   *)
(* were pushed.                                                            *)
(***************************************************************************)
C3_CloseThenDrain ==
  /\ [](cPaths # <<>> =>
          /\ Running
          /\ \/ \E w \in Workers : wPc[w] \in {"recv", "check"}
             \/ mainPc = "spawn" /\ spawned < MAXPROCS)
  /\ [][\A w \in Workers :
          (wPc[w] # "exited" /\ wPc'[w] = "exited") =>
             (closed /\ cPaths = <<>>)]_vars
  /\ [](mainPc = "done" =>
          /\ cPaths = <<>>
          /\ \A i \in Range(pushed) : taken[i] = 1 /\ checked[i] = 1
          /\ Cardinality({i \in Entries : checked[i] > 0}) = Len(pushed))
  /\ NeverStuck
  /\ RunIsFinite

\* the channel was closed with paths still in it, after some were checked
C3_Witness ==
  /\ closed
  /\ Len(cPaths) >= 2
  /\ \E i \in Entries : checked[i] = 1

(***************************************************************************)
(* C4: max(1, n) workers are started for the n that -n gave; no run is     *)
(* infinite and none gets stuck while the process runs, so every run ends; *)
(* it ends by log.Fatalln only when the database does not load; when main  *)
(* has returned the producer has closed the channel and every worker that  *)
(* was started has exited.                                                 *)
(***************************************************************************)
AtLeastOne(n) == IF n >= 1 THEN n ELSE 1

C4_Terminates ==
  /\ NeverStuck
  /\ RunIsFinite
  /\ [](/\ Cardinality({w \in Workers : wPc[w] # "idle"}) = spawned
        /\ spawned <= AtLeastOne(nFlag)
        /\ wg = Cardinality({w \in Workers : wPc[w] \in {"recv", "check"}}))
  /\ [](mainPc = "done" =>
          /\ spawned = AtLeastOne(nFlag)
          /\ closed /\ prodPc = "done"
          /\ \A w \in 1..spawned : wPc[w] = "exited")
  /\ [](mainPc = "fatal" => readDatabase(Doc, SKIPSOFT).err # "")

\* main has returned from a run with -n below 1 that pushed more paths than
\* the channel holds
C4_Witness ==
  /\ mainPc = "done"
  /\ nFlag < 1
  /\ Len(pushed) > QueueCap

(***************************************************************************)
(* C5: the channel never holds more than 10 paths; what it holds are the   *)
(* last paths pushed, in order, and every path pushed before them was      *)
(* taken (none is dropped); while it holds 10 no step pushes a path and a  *)
(* producer that waits to send keeps waiting with the same path; when the  *)
(* producer stops waiting, it is that path that was pushed.                *)
(***************************************************************************)
C5_Backpressure ==
  /\ [](/\ Len(cPaths) <= 10
        /\ Len(cPaths) <= Len(pushed)
        /\ cPaths = SubSeq(pushed, Len(pushed) - Len(cPaths) + 1, Len(pushed))
        /\ \A k \in 1..(Len(pushed) - Len(cPaths)) : taken[pushed[k]] >= 1)
  /\ [][Len(cPaths) = 10 =>
          /\ pushed' = pushed
          /\ (prodPc = "send" => prodPc' = "send" /\ pos' = pos)]_vars
  /\ [][(prodPc = "send" /\ prodPc' # "send") =>
          (pushed' = Append(pushed, pos) /\ cPaths' = Append(cPaths, pos))]_vars

\* the channel is full and the producer waits to send one more path
C5_Witness ==
  /\ Len(cPaths) = 10
  /\ prodPc = "send"
  /\ pos \notin Range(pushed)

(***************************************************************************)
(* C6: the walk goes on after an error: every entry the walk has passed    *)
(* that is an eligible file was pushed, every entry it failed on was       *)
(* logged, and the channel is closed only when the walk has passed every   *)
(* entry, so that at the close every eligible file of the tree was pushed. *)
(* (The entries of a directory that could not be read are not known to the *)
(* walk; they are not entries it has left to visit.)                       *)
(***************************************************************************)
C6_CloseAfterWalk ==
  /\ closed => (prodPc = "done" /\ pos > Len(Tree))
  /\ \A i \in Entries :
       (prodPc # "idle" /\ i < pos) =>
          /\ Eligible(i) <=> i \in Range(pushed)
          /\ WalkFailsAt(i) =>
               \E l \in stderr : l.msg = "walk error" /\ l.path = PathOf(i)
  /\ \A k \in DOMAIN pushed : \A m \in DOMAIN pushed : k < m => pushed[k] < pushed[m]

\* the channel is closed, the walk had failed on an entry, and a file that
\* comes after that entry was pushed
C6_Witness ==
  /\ closed
  /\ \E i \in Entries : \E j \in Range(pushed) :
       WalkFailsAt(i) /\ i < j

(***************************************************************************)
(* C7: when the document has no entry, or holds a signature whose pattern  *)
(* does not compile, main ends in log.Fatalln at the database: no          *)
(* signature is ever held, the channel is never made, the producer and the *)
(* workers are never started, no path is pushed, no file is checked and    *)
(* nothing is printed.                                                     *)
(***************************************************************************)
Unloadable(doc) ==
  \/ Len(doc.Signatures) = 0
  \/ \E k \in DOMAIN doc.Signatures : \E b \in Range(doc.Signatures[k].Signature) : b = 40

C7_AllOrNothing ==
  Unloadable(Doc) =>
    /\ mainPc \in {"clamp", "normalizers", "database", "fatal"}
    /\ mainPc = "fatal" =>
         \E l \in stderr : l.prefix = "[fatal]" /\ l.msg = "database error"
    /\ db = <<>>
    /\ ~made /\ ~closed /\ cPaths = <<>>
    /\ prodPc = "idle" /\ pushed = <<>>
    /\ spawned = 0 /\ \A w \in Workers : wPc[w] = "idle"
    /\ \A i \in Entries : taken[i] = 0 /\ checked[i] = 0
    /\ stdout = <<>>

\* the run has ended at a document whose last signature only is malformed
C7_Witness ==
  /\ mainPc = "fatal"
  /\ DBFILE = "bad-last.xml"

(***************************************************************************)
(* C8: once the database is loaded, the signatures main holds are, with    *)
(* -skip-soft, the signatures of the document whose severity is "c", in    *)
(* the order of the document, and without it all the signatures of the     *)
(* document in order; each holds the matcher compiled from its own         *)
(* pattern.  With -skip-soft and no critical signature the set is empty,   *)
(* the run goes on and prints no match.                                    *)
(***************************************************************************)
Loaded == mainPc \in {"walk", "spawn", "done"}
WithMatcher(sig) == [sig EXCEPT !.Regexp = [ok |-> TRUE, re |-> sig.Signature]]
CriticalAt(raw) == {k \in DOMAIN raw : raw[k].Type = "c"}
\* the n-th smallest element of S
NthOf(S, n) == CHOOSE j \in S : Cardinality({m \in S : m < j}) = n - 1

C8_ActiveSet ==
  Loaded =>
    LET raw == Doc.Signatures IN
    /\ IF SKIPSOFT
       THEN /\ Len(db) = Cardinality(CriticalAt(raw))
            /\ \A k \in DOMAIN db : db[k] = WithMatcher(raw[NthOf(CriticalAt(raw), k)])
       ELSE /\ Len(db) = Len(raw)
            /\ \A k \in DOMAIN db : db[k] = WithMatcher(raw[k])
    /\ db = <<>> => stdout = <<>>

\* a run with -skip-soft and a document without critical signature has
\* ended, and files were brought to signature testing in it
C8_Witness ==
  /\ mainPc = "done"
  /\ SKIPSOFT
  /\ Doc.Signatures # <<>>
  /\ db = <<>>
  /\ \E i \in Entries : checked[i] = 1 /\ result[i].end = "match"

(***************************************************************************)
(* C9: a file that checkFile cannot open, stat or read gets a [warning]    *)
(* line and no match line, and the run is not fatal; the worker is ready   *)
(* to receive again after every checkFile and leaves only on a closed and  *)
(* empty channel; and when main has returned every eligible file was       *)
(* checked and the match lines printed are those of the files that can be  *)
(* scanned and match, each decided by the file alone.                      *)
(***************************************************************************)
FailsAccess(f) == f.openErr \/ f.statErr \/ f.readErr

\* the file passes every step of checkFile before the signatures
Scannable(f) ==
  /\ ~FailsAccess(f)
  /\ f.size <= 2 * 1024 * 1024
  /\ FFILTER = {} => (~f.seekErr /\ (f.size = 0 \/ f.headErr \/ f.mime.major = "text"
                                    \/ (f.mime.minor = "xml" /\ f.mime.param = "")))

MatchesSome(f) ==
  \E k \in DOMAIN db :
    RegexpMatch(db[k].Regexp, NormalizeBytes(compileNormalizers, f.content))

C9_FailureIsLocal ==
  /\ [](\A i \in Entries :
          (checked[i] > 0 /\ FailsAccess(Tree[i])) =>
             (WarnedFor(i) /\ LinesFor(i) = {} /\ mainPc # "fatal"))
  /\ [][\A w \in Workers :
          /\ (wPc[w] = "check" /\ wPc'[w] # "check") => wPc'[w] = "recv"
          /\ (wPc[w] # "exited" /\ wPc'[w] = "exited") =>
               (wPc[w] = "recv" /\ closed /\ cPaths = <<>>)]_vars
  /\ [](mainPc = "done" =>
          \A i \in Entries :
            /\ checked[i] = (IF Eligible(i) THEN 1 ELSE 0)
            /\ LinesFor(i) # {} <=>
                 (Eligible(i) /\ Scannable(Tree[i]) /\ MatchesSome(Tree[i])))

\* with one worker: a file could not be opened, one could not be read, and
\* a file pushed after both has its match line
C9_Witness ==
  /\ spawned = 1
  /\ \E i, j, k \in Entries :
       /\ i < k /\ j < k
       /\ checked[i] = 1 /\ result[i].end = "open"
       /\ checked[j] = 1 /\ result[j].end = "read"
       /\ LinesFor(k) # {}

(***************************************************************************)
(* C10 as stated: every file a worker has checked whose size exceeds 2 MiB *)
(* was not read in full, was tested against no signature and has a         *)
(* warning.                                                                *)
(***************************************************************************)
C10_Original ==
  \A i \in Entries :
    (checked[i] > 0 /\ Tree[i].size > 2 * 1024 * 1024) =>
       /\ ~result[i].readAll
       /\ result[i].tested = <<>>
       /\ WarnedFor(i)

(***************************************************************************)
(* C10 as amended: every file a worker has checked whose size exceeds      *)
(* 2 MiB was not read in full, was tested against no signature and has no  *)
(* match line, with or without an extension filter; it has a warning,      *)
(* unless no filter is set and its head is neither text nor xml, in which  *)
(* case checkFile has left it at the sniffing, before the size check,      *)
(* without a warning.  A file of exactly 2 MiB is not refused by the size  *)
(* check: when nothing else fails it is read in full and tested.           *)
(***************************************************************************)
C10_Oversized ==
  \A i \in Entries :
    checked[i] > 0 =>
      LET f == Tree[i] IN
      /\ f.size > 2 * 1024 * 1024 =>
           /\ ~result[i].readAll
           /\ result[i].tested = <<>>
           /\ LinesFor(i) = {}
           /\ \/ WarnedFor(i)
              \/ /\ FFILTER = {}
                 /\ ~(f.mime.major = "text" \/ (f.mime.minor = "xml" /\ f.mime.param = ""))
                 /\ result[i].end = "sniff"
                 /\ ~\E l \in stderr : l.path = f.path
      /\ f.size = 2 * 1024 * 1024 =>
           /\ result[i].end # "size"
           /\ ~\E l \in stderr : l.path = f.path /\ l.msg = "file size more than 2M"
           /\ (~FailsAccess(f) /\ ~f.seekErr /\ f.mime.major = "text") =>
                (result[i].readAll /\ result[i].end = "match")

\* a file of 2 MiB + 1 byte was refused with the size warning, and a file
\* of exactly 2 MiB has its match line
C10_Witness ==
  \E i, j \in Entries :
    /\ checked[i] = 1 /\ Tree[i].size = 2 * 1024 * 1024 + 1
    /\ result[i].end = "size" /\ WarnedFor(i)
    /\ checked[j] = 1 /\ Tree[j].size = 2 * 1024 * 1024
    /\ LinesFor(j) # {}

(***************************************************************************)
(* C11 as stated: with no extension filter, a file a worker has checked    *)
(* was read in full or tested against a signature only if the type of its  *)
(* first 512 bytes is text/* or */xml; a file of any other type was left   *)
(* at the sniffing, with no warning and no match line; and a file that was *)
(* read was read from offset 0, so that what was scanned is the whole      *)
(* content.                                                                *)
(***************************************************************************)
C11_Original ==
  FFILTER = {} =>
    \A i \in Entries :
      checked[i] > 0 =>
        LET f == Tree[i]
            text == f.mime.major = "text" \/ (f.mime.minor = "xml" /\ f.mime.param = "")
        IN  /\ (result[i].readAll \/ result[i].tested # <<>>) => text
            /\ ~text =>
                 /\ result[i].end = "sniff"
                 /\ LinesFor(i) = {}
                 /\ ~\E l \in stderr : l.path = f.path
            /\ result[i].end = "match" =>
                 /\ result[i].offset = 0
                 /\ result[i].content = NormalizeTable[f.content]

(***************************************************************************)
(* C11 as amended: with no extension filter, a file a worker has checked   *)
(* was read in full or tested against a signature only if the type of its  *)
(* first 512 bytes is text/* or */xml, or the read of those bytes failed   *)
(* (then the file is not classified); a file whose first bytes were read   *)
(* and are of any other type was left at the sniffing, not read, not       *)
(* tested, with no warning and no match line; and a file that was read was *)
(* read from offset 0, so that what was scanned is the whole content.      *)
(***************************************************************************)
C11_SniffDecides ==
  FFILTER = {} =>
    \A i \in Entries :
      checked[i] > 0 =>
        LET f == Tree[i]
            text == f.mime.major = "text" \/ (f.mime.minor = "xml" /\ f.mime.param = "")
        IN  /\ (result[i].readAll \/ result[i].tested # <<>>) => (text \/ f.headErr)
            /\ (~text /\ ~f.headErr) =>
                 /\ result[i].end = "sniff"
                 /\ ~result[i].readAll /\ result[i].tested = <<>>
                 /\ LinesFor(i) = {}
                 /\ ~\E l \in stderr : l.path = f.path
            /\ result[i].end = "match" =>
                 /\ result[i].offset = 0
                 /\ result[i].content = NormalizeTable[f.content]

\* with no filter, a file of type image/jpeg was left at the sniffing and a
\* file of a text type, longer than nothing, has its match line
C11_Witness ==
  /\ FFILTER = {}
  /\ \E i, j \in Entries :
       /\ checked[i] = 1 /\ Tree[i].mime = ImageJpeg /\ result[i].end = "sniff"
       /\ checked[j] = 1 /\ Tree[j].mime.major = "text" /\ Tree[j].size > 0
       /\ result[j].end = "match" /\ LinesFor(j) # {}

(***************************************************************************)
(* C12: every line logged for an error the run survives (an entry the walk *)
(* fails on; a file that cannot be opened, positioned, stat'ed or read, or *)
(* that is too large) has the prefix [warning]; a line with the prefix     *)
(* [fatal] is logged only by the step that ends the process, so that once  *)
(* such a line is there the process has ended and no path is pushed or     *)
(* checked any more.                                                       *)
(***************************************************************************)
C12_FatalMeansFatal ==
  /\ \A l \in stderr :
       l.msg \in {"walk error", "open", "seek", "stat", "read",
                  "file size more than 2M"} => l.prefix = "[warning]"
  /\ (\E l \in stderr : l.prefix = "[fatal]") => ~Running

(***************************************************************************)
(* C13: when -n asks for one worker (or fewer), the files are checked in   *)
(* the order in which they were pushed, and the match lines are printed in *)
(* that order: of two lines, the file of the earlier one was pushed        *)
(* before the file of the later one.                                       *)
(***************************************************************************)
C13_OneWorkerOrder ==
  nFlag <= 1 =>
    /\ \A a, b \in DOMAIN pushed :
         (a < b /\ checked[pushed[b]] > 0) => checked[pushed[a]] > 0
    /\ \A k, m \in DOMAIN stdout :
         k < m =>
           \E a, b \in DOMAIN pushed :
             /\ a < b
             /\ PathOf(pushed[a]) = stdout[k].path
             /\ PathOf(pushed[b]) = stdout[m].path

\* a run with one worker has ended with three match lines or more, and a
\* file without a line was pushed between two files that have one
C13_Witness ==
  /\ nFlag <= 1
  /\ mainPc = "done"
  /\ Len(stdout) >= 3
  /\ \E a, b, d \in DOMAIN pushed :
       /\ a < b /\ b < d
       /\ LinesFor(pushed[a]) # {} /\ LinesFor(pushed[b]) = {}
       /\ LinesFor(pushed[d]) # {}

Deleted(r, c) == ReplaceFrom(r, c, 1, FALSE)
Decoded(r, c) == ReplaceFrom(r, c, 1, TRUE)

\* the content after the first k of the four steps, in the order stated
AfterSteps(k, input) ==
  LET s1 == Deleted("quotedot", input)
      s2 == Deleted("comment", s1)
      s3 == Decoded("hex", s2)
      s4 == Decoded("octal", s3)
  IN  CASE k = 0 -> input
        [] k = 1 -> s1
        [] k = 2 -> s2
        [] k = 3 -> s3
        [] k = 4 -> s4

(***************************************************************************)
(* C15: the content checkFile holds after k turns of its two loops is the  *)
(* content read in which, in this order, (1) the quote-dot-quote sequences *)
(* were deleted, (2) the block comments were deleted, (3) the hexadecimal  *)
(* escapes were decoded, (4) the octal escapes were decoded, as far as k   *)
(* goes: each step once, both deletions before both decodings, nothing but *)
(* the bytes read decides the result, and no deletion comes after a        *)
(* decoding.  The content the signatures are matched against is the one    *)
(* after the four steps, which is also what checkFile computes in the      *)
(* full program.                                                           *)
(***************************************************************************)
C15_FixedOrder ==
  /\ nrNext \in 1..5
  /\ cNorm = AfterSteps(nrNext - 1, cRead)
  /\ nrNext = 5 => cNorm = NormalizeBytes(normalizers, cRead)
  /\ checked[1] = 1 => result[1].content = AfterSteps(4, cRead)

\* checkFile has returned: the content read held no quote-dot-quote, the
\* decoding made one, it was not deleted, and the signature that looks for
\* it matched
C15_Witness ==
  /\ checked[1] = 1
  /\ ~Contains(cRead, B(<<"'", ".", "'">>))
  /\ Contains(cNorm, B(<<"'", ".", "'">>))
  /\ stdout # <<>> /\ stdout[1].id = 8

(***************************************************************************)
(* C16: the octal step replaces every octal escape of 1, 2 or 3 digits (a  *)
(* backslash and the octal digits that follow it, three at most) by the    *)
(* one byte of that value: when every escape of the content names a byte   *)
(* (a value of 255 at most), the content after the fourth step is the      *)
(* content after the third with each escape replaced by its byte.          *)
(***************************************************************************)
RECURSIVE OctalDigitsAt(_, _, _)
\* how many octal digits, n counted already and 3 at most, follow byte i
OctalDigitsAt(c, i, n) ==
  IF n < 3 /\ i + n + 1 <= Len(c) /\ c[i + n + 1] \in 48..55
  THEN OctalDigitsAt(c, i, n + 1)
  ELSE n

RECURSIVE OctalValue(_, _, _)
\* the value of the n octal digits that follow byte i
OctalValue(c, i, n) ==
  IF n = 0 THEN 0 ELSE 8 * OctalValue(c, i, n - 1) + (c[i + n] - 48)

RECURSIVE OctalAsClaimed(_, _)
OctalAsClaimed(c, i) ==
  IF i > Len(c) THEN <<>>
  ELSE LET n == OctalDigitsAt(c, i, 0) IN
       IF c[i] = 92 /\ n > 0
       THEN <<OctalValue(c, i, n)>> \o OctalAsClaimed(c, i + n + 1)
       ELSE <<c[i]>> \o OctalAsClaimed(c, i + 1)

EscapesNameBytes(c) ==
  \A i \in DOMAIN c :
    c[i] = 92 => OctalValue(c, i, OctalDigitsAt(c, i, 0)) <= 255

C16_OctalDecoded ==
  (nrNext = 5 /\ EscapesNameBytes(AfterSteps(3, cRead))) =>
     cNorm = OctalAsClaimed(AfterSteps(3, cRead), 1)

(***************************************************************************)
(* C17: a span that one of the two escape expressions matches and that     *)
(* cannot be decoded (a hexadecimal escape that is not \x and two digits,  *)
(* an octal escape that is not three octal digits of a value of 255 at     *)
(* most) is replaced by nothing: after a decoding step the content is as   *)
(* long as the bytes outside the matches plus one byte per span that can   *)
(* be decoded, and when no span can be decoded it is the bytes outside the *)
(* matches, in their order.  Nothing is logged, checkFile is never without *)
(* a next step before it returns, and it returns from the loop over the    *)
(* signatures: every signature up to the first that matches was tested     *)
(* against the normalized content, and a line is printed exactly when one  *)
(* matches.                                                                *)
(***************************************************************************)
RECURSIVE MatchesFrom(_, _, _)
\* where the matches of r in c start, from byte i on
MatchesFrom(r, c, i) ==
  IF i > Len(c) THEN {}
  ELSE LET n == MatchLen(r, c, i) IN
       IF n = 0 THEN MatchesFrom(r, c, i + 1)
       ELSE {i} \cup MatchesFrom(r, c, i + n)

\* the match of r at byte i of c cannot be decoded
DecodeFails(r, c, i) ==
  LET n == MatchLen(r, c, i) IN
  IF r = "hex"
  THEN ~(c[i + 1] = 120 /\ n = 4)
  ELSE ~(/\ n = 4
         /\ \A k \in 1..3 : c[i + k] \in 48..55
         /\ OctalValue(c, i, 3) <= 255)

\* after is what the decoding step of r makes of before
Swallowed(r, before, after) ==
  LET at == MatchesFrom(r, before, 1)
      good == {i \in at : ~DecodeFails(r, before, i)}
  IN  /\ Len(after) = Len(Deleted(r, before)) + Cardinality(good)
      /\ good = {} => after = Deleted(r, before)

C17_FailureSwallowed ==
  /\ nrNext = 4 => Swallowed("hex", AfterSteps(2, cRead), cNorm)
  /\ nrNext = 5 => Swallowed("octal", AfterSteps(3, cRead), cNorm)
  /\ stderr = {}
  /\ wPc[1] = "check" => ENABLED AloneNext
  /\ checked[1] = 1 =>
       LET M == {k \in DOMAIN db : RegexpMatch(db[k].Regexp, cNorm)} IN
       /\ result[1].end = "match"
       /\ result[1].content = cNorm
       /\ result[1].tested =
            [k \in 1..(IF M = {} THEN Len(db) ELSE MinOf(M)) |-> db[k].Id]
       /\ stdout # <<>> <=> M # {}

\* checkFile has returned: the content read held an octal escape that
\* cannot be decoded, between two quotes, and the signature that looks for
\* two quotes in a row, which did not match the content read, matched
C17_Witness ==
  /\ checked[1] = 1
  /\ \E i \in MatchesFrom("octal", cRead, 1) : DecodeFails("octal", cRead, i)
  /\ ~Contains(cRead, B(<<"'", "'">>))
  /\ stdout # <<>> /\ stdout[1].id = 7

(***************************************************************************)
(* C18: the extension filter is set once: after any calls of               *)
(* FileExtensions.Set, every call after the first has returned an error    *)
(* and has left the set as the first call left it; every element of the    *)
(* set begins with a dot, and no element is an empty item (a dot with      *)
(* nothing given).                                                         *)
(***************************************************************************)
C18_SetOnce ==
  /\ nSet >= 2 => (flagErr # "" /\ FFILTER = liFirst)
  /\ \A e \in FFILTER : Len(e) >= 1 /\ e[1] = 46

(***************************************************************************)
(* C19: every path pushed is an entry of the tree that is no directory,    *)
(* and with a filter set its extension is in the filter; every entry the   *)
(* walk has visited without error that is no directory and, with a filter  *)
(* set, has its extension in the filter, was pushed.                       *)
(***************************************************************************)
C19_PushedAreFiltered ==
  /\ \A k \in DOMAIN pushed :
       /\ pushed[k] \in Entries
       /\ ~Tree[pushed[k]].isDir
       /\ FFILTER # {} => Tree[pushed[k]].ext \in FFILTER
  /\ \A i \in Entries :
       (/\ prodPc # "idle" /\ i < pos
        /\ i \in ReachedIn[ROOTDIR] /\ ~Tree[i].lstatErr
        /\ ~Tree[i].isDir
        /\ FFILTER # {} => Tree[i].ext \in FFILTER)
       => \E k \in DOMAIN pushed : pushed[k] = i

\* the walk has ended under a filter of two extensions: a file of each was
\* pushed, and a file of another extension and a directory were passed
C19_Witness ==
  /\ prodPc = "done"
  /\ Cardinality(FFILTER) = 2
  /\ \A x \in FFILTER : \E k \in DOMAIN pushed : Tree[pushed[k]].ext = x
  /\ \E i, j \in Entries :
       /\ ~Tree[i].isDir /\ ~Tree[i].lstatErr /\ Tree[i].ext \notin FFILTER
       /\ Tree[j].isDir /\ ~Tree[j].readDirErr /\ j > 1

(***************************************************************************)
(* C20: the channel is closed once, by the goroutine of walk and by no     *)
(* other: the step that closes it is the one that ends that goroutine, it  *)
(* changes nothing of a worker, and a closed channel stays closed and is   *)
(* never closed again; a path is pushed only by the goroutine of walk, in  *)
(* a step that changes nothing of a worker; once the channel is closed no  *)
(* path is pushed and the channel only loses paths; and when main has      *)
(* returned the channel was closed.                                        *)
(***************************************************************************)
C20_ClosedOnceByProducer ==
  /\ [](closed <=> prodPc = "done")
  /\ [](closed => ~ENABLED ProducerClose)
  /\ [](mainPc = "done" => closed)
  /\ [][closed' # closed =>
          /\ ~closed /\ closed'
          /\ prodPc = "walk" /\ prodPc' = "done"
          /\ UNCHANGED <<workVars, wg, pushed, cPaths>>]_vars
  /\ [][(pushed' # pushed \/ Len(cPaths') > Len(cPaths)) =>
          /\ ~closed /\ ~closed'
          /\ prodPc = "send"
          /\ pushed' = Append(pushed, pos) /\ cPaths' = Append(cPaths, pos)
          /\ UNCHANGED <<workVars, wg>>]_vars
  /\ [][closed => (closed' /\ pushed' = pushed /\ Len(cPaths') <= Len(cPaths))]_vars

\* the channel is closed after more paths were pushed than it holds, some
\* are still in it, and a worker is in checkFile
C20_Witness ==
  /\ closed
  /\ Len(pushed) > QueueCap
  /\ cPaths # <<>>
  /\ \E w \in Workers : wPc[w] = "check"

=============================================================================
